---- MODULE Spec2Model ----
(***************************************************************************)
(* Credential resolution of the Google Calendar MCP server                 *)
(* (src/google_calendar_mcp_server.py): get_calendar_service, the header   *)
(* extraction in front of it and the five tool wrappers around it.         *)
(*                                                                         *)
(* Python strings are sequences of chunks.  A chunk is a run of            *)
(* whitespace, a run of non-whitespace text that is not JSON (the token    *)
(* prefixes are such runs), or the serialised text of one JSON value.      *)
(* json.loads, str.strip, str.startswith and str.replace are computed on   *)
(* that representation.  Python dicts are functions from key strings to    *)
(* values; a value is None or a string.                                    *)
(***************************************************************************)
EXTENDS Integers, Sequences, FiniteSets, TLC

VARIABLES pc, google_calendar_credentials, impersonate_user, env, outcome,
          tool, ctx, result

vars == <<pc, google_calendar_credentials, impersonate_user, env, outcome,
          tool, ctx, result>>

(***************************************************************************)
(* Bounds                                                                  *)
(***************************************************************************)
\* Longest run of whitespace chunks put in front of or behind an input.
MaxPad == 1

\* Number of tool calls in flight at the same time.
MaxCalls == 2

(***************************************************************************)
(* Python values                                                           *)
(***************************************************************************)
WS == [k |-> "ws"]
Txt(v) == [k |-> "txt", v |-> v]
JsonText(doc) == [k |-> "json", doc |-> doc]

None == [t |-> "none"]
Str(s) == [t |-> "str", s |-> s]
EmptyStr == Str(<<>>)

\* Python truthiness of None and of strings: None and "" are false.
Truthy(v) == v.t = "str" /\ v.s # <<>>

\* a or b
PyOr(a, b) == IF Truthy(a) THEN a ELSE b

EmptyDict == [x \in {} |-> None]

\* key in d
HasKey(d, key) == key \in DOMAIN d

\* d.get(key, default)
DictGet(d, key, default) == IF key \in DOMAIN d THEN d[key] ELSE default

\* A JSON object is a dict; the other JSON value kinds have no keys.
JsonObject(d) == [kind |-> "object", dict |-> d]
JsonScalarKinds == {"number", "string", "array", "null", "bool"}
JsonOther(kind) == [kind |-> kind]

(***************************************************************************)
(* String operations                                                       *)
(***************************************************************************)
RECURSIVE LStrip(_)
LStrip(s) == IF s # <<>> /\ Head(s) = WS THEN LStrip(Tail(s)) ELSE s

RECURSIVE RStrip(_)
RStrip(s) ==
    IF s # <<>> /\ s[Len(s)] = WS THEN RStrip(SubSeq(s, 1, Len(s) - 1)) ELSE s

\* s.strip()
Strip(s) == RStrip(LStrip(s))

\* s.startswith(prefixes)
StartsWith(s, prefixes) == s # <<>> /\ s[1].k = "txt" /\ s[1].v \in prefixes

\* s.replace(old, '') for a one-chunk text old
RECURSIVE RemoveText(_, _)
RemoveText(s, old) ==
    IF s = <<>> THEN <<>>
    ELSE IF Head(s) = Txt(old) THEN RemoveText(Tail(s), old)
    ELSE <<Head(s)>> \o RemoveText(Tail(s), old)

\* json.loads(s): whitespace around the one JSON value is allowed, anything
\* else is a JSONDecodeError.
JsonLoads(s) ==
    LET t == Strip(s)
    IN  IF Len(t) = 1 /\ t[1].k = "json"
        THEN [ok |-> TRUE, value |-> t[1].doc]
        ELSE [ok |-> FALSE, exc |-> "JSONDecodeError"]

\* json.dumps({"access_token": token})
JsonDumpsAccessToken(token) ==
    <<JsonText(JsonObject("access_token" :> Str(token)))>>

TokenPrefixes == {"ya29.", "1//", "ya.a0"}
DefaultTokenUri == Str(<<Txt("https://oauth2.googleapis.com/token")>>)
SCOPES == <<"https://www.googleapis.com/auth/calendar">>

(***************************************************************************)
(* Exceptions.  at is the chain of raise sites (source lines), outermost   *)
(* first; msg is str(e), a sequence of message fragments.                  *)
(***************************************************************************)
Raise(exc, at, msg) == [ok |-> FALSE, exc |-> exc, at |-> at, msg |-> msg]
Return(v) == [ok |-> TRUE, value |-> v]

InvalidFormatMsg == <<"Invalid credentials format. Must be: 1. token 2. access_token JSON 3. full OAuth JSON 4. service account JSON">>
ServiceAccountFailedPrefix == "Service Account authentication failed: "
OAuthFailedPrefix == "OAuth token authentication failed: "
MissingTokenMsg == <<"OAuth token must contain 'token' or 'access_token' field">>
RefreshFailedPrefix == "Failed to refresh expired token: "
RefreshFailedSuffix == ". Please provide a new access token or check your refresh_token, client_id, and client_secret."

(***************************************************************************)
(* The google-auth / googleapiclient calls get_calendar_service makes      *)
(***************************************************************************)
ServiceAccountRequiredFields == {"client_email", "private_key", "token_uri"}

\* service_account.Credentials.from_service_account_info(creds_data, scopes=SCOPES)
from_service_account_info(info) ==
    IF ServiceAccountRequiredFields \subseteq DOMAIN info
    THEN Return([cls |-> "service_account", info |-> info, subject |-> None,
                 scopes |-> SCOPES])
    ELSE Raise("ValueError", <<143>>,
               <<"Service account info was not in the expected format, missing fields">>)

\* creds.with_subject(impersonate_user)
with_subject(creds, subject) == [creds EXCEPT !.subject = subject]

\* Credentials(token=..., refresh_token=..., token_uri=..., client_id=...,
\* client_secret=..., scopes=SCOPES): no expiry is passed, so expiry is None.
Credentials(token, refresh_token, token_uri, client_id, client_secret) ==
    [cls |-> "oauth2", token |-> token, refresh_token |-> refresh_token,
     token_uri |-> token_uri, client_id |-> client_id,
     client_secret |-> client_secret, scopes |-> SCOPES,
     expiry |-> None, refreshed |-> FALSE]

\* creds.expired: a credential without an expiry is never reported expired;
\* one with an expiry is expired when that time has passed.
Expired(creds) == creds.expiry # None /\ creds.expiry.at = "past"

\* creds.refresh(Request()): the exchange against token_uri.
Refresh(creds, e) ==
    IF e.refreshOk
    THEN Return([creds EXCEPT !.token = Str(<<Txt("ya29."), Txt("refreshed")>>),
                              !.refreshed = TRUE])
    ELSE Raise("RefreshError", <<193>>, <<"invalid_grant">>)

\* build('calendar', 'v3', credentials=creds)
build(creds) == [api |-> "calendar", version |-> "v3", credentials |-> creds]

(***************************************************************************)
(* get_calendar_service                                                    *)
(***************************************************************************)
\* ParseCredentials binding the input as it came, not stripped.
ParseCredentials_TokenNotStripped(raw) ==
    LET loaded == JsonLoads(raw)
    IN  IF loaded.ok THEN Return(loaded.value)
        ELSE IF StartsWith(Strip(raw), TokenPrefixes)
             THEN Return(JsonObject("access_token" :> Str(raw)))
             ELSE Raise("ValueError", <<130>>, InvalidFormatMsg)

\* ParseCredentials taking every non-JSON string for a token.
ParseCredentials_NoPrefixCheck(raw) ==
    LET loaded == JsonLoads(raw)
    IN  IF loaded.ok THEN Return(loaded.value)
        ELSE Return(JsonObject("access_token" :> Str(Strip(raw))))

\* Lines 121-136: parse as JSON, else accept a bare token by its prefix.
ParseCredentials(raw) ==
    LET loaded == JsonLoads(raw)
    IN  IF loaded.ok THEN Return(loaded.value)
        ELSE IF StartsWith(Strip(raw), TokenPrefixes)
             THEN Return(JsonObject("access_token" :> Str(Strip(raw))))
             ELSE Raise("ValueError", <<130>>, InvalidFormatMsg)

\* creds_data.get('type') == 'service_account'
IsServiceAccount(d) ==
    DictGet(d, "type", None) = Str(<<Txt("service_account")>>)

\* 'token' in creds_data or 'access_token' in creds_data
HasTokenField(d) == HasKey(d, "token") \/ HasKey(d, "access_token")

\* SelectToken preferring access_token.
SelectToken_AccessTokenFirst(d) ==
    PyOr(DictGet(d, "access_token", None), DictGet(d, "token", None))

\* creds_data.get('token') or creds_data.get('access_token')
SelectToken(d) ==
    PyOr(DictGet(d, "token", None), DictGet(d, "access_token", None))

\* HasRefreshCapability looking at refresh_token alone.
HasRefreshCapability_RefreshTokenOnly(refresh_token, client_id, client_secret) ==
    Truthy(refresh_token)

\* refresh_token and client_id and client_secret
HasRefreshCapability(refresh_token, client_id, client_secret) ==
    Truthy(refresh_token) /\ Truthy(client_id) /\ Truthy(client_secret)

\* SelectTokenUri without the default.
SelectTokenUri_NoDefault(d) == DictGet(d, "token_uri", None)

\* creds_data.get('token_uri', 'https://oauth2.googleapis.com/token')
SelectTokenUri(d) == DictGet(d, "token_uri", DefaultTokenUri)

\* Lines 142-153.
ServiceAccountBranch(d, imp) ==
    LET made == from_service_account_info(d)
    IN  IF made.ok
        THEN Return(build(IF Truthy(imp) THEN with_subject(made.value, imp)
                                         ELSE made.value))
        ELSE Raise("ValueError", <<153>> \o made.at,
                   <<ServiceAccountFailedPrefix>> \o made.msg)

\* Lines 181-198: the refreshable credential and its eager refresh.
RefreshableBranch(token, refresh_token, token_uri, client_id, client_secret, e) ==
    LET creds == Credentials(token, refresh_token, token_uri, client_id,
                             client_secret)
        r == Refresh(creds, e)
    IN  IF Expired(creds)
        THEN IF r.ok THEN Return(build(r.value))
             ELSE Raise("ValueError", <<195>> \o r.at,
                        <<RefreshFailedPrefix>> \o r.msg \o <<RefreshFailedSuffix>>)
        ELSE Return(build(creds))

\* Lines 158-207: the body of the OAuth branch's try block.
OAuthBody(d, e) ==
    LET token == SelectToken(d)
        refresh_token == DictGet(d, "refresh_token", None)
        token_uri == SelectTokenUri(d)
        client_id == DictGet(d, "client_id", None)
        client_secret == DictGet(d, "client_secret", None)
    IN  IF ~Truthy(token) THEN Raise("ValueError", <<166>>, MissingTokenMsg)
        ELSE IF ~HasRefreshCapability(refresh_token, client_id, client_secret)
             THEN Return(build(Credentials(token, None, None, None, None)))
             ELSE RefreshableBranch(token, refresh_token, token_uri, client_id,
                                    client_secret, e)

\* Lines 157-209: every exception of the body is raised again as a ValueError.
OAuthBranch(d, e) ==
    LET body == OAuthBody(d, e)
    IN  IF body.ok THEN body
        ELSE Raise("ValueError", <<209>> \o body.at,
                   <<OAuthFailedPrefix>> \o body.msg)

\* Dispatch testing the token fields before the service-account type.
Dispatch_TokenFieldsFirst(creds_data, imp, e) ==
    IF creds_data.kind # "object"
    THEN Raise("AttributeError", <<141>>, <<"object has no attribute 'get'">>)
    ELSE IF HasTokenField(creds_data.dict)
         THEN OAuthBranch(creds_data.dict, e)
         ELSE IF IsServiceAccount(creds_data.dict)
              THEN ServiceAccountBranch(creds_data.dict, imp)
              ELSE Raise("ValueError", <<212>>, InvalidFormatMsg)

\* Dispatch rejecting an impersonation target outside the service-account
\* branch.
Dispatch_SubjectRejectedForOAuth(creds_data, imp, e) ==
    IF creds_data.kind # "object"
    THEN Raise("AttributeError", <<141>>, <<"object has no attribute 'get'">>)
    ELSE IF IsServiceAccount(creds_data.dict)
         THEN ServiceAccountBranch(creds_data.dict, imp)
         ELSE IF HasTokenField(creds_data.dict)
              THEN IF Truthy(imp)
                   THEN Raise("ValueError", <<209>>,
                              <<OAuthFailedPrefix, "impersonation needs a service account">>)
                   ELSE OAuthBranch(creds_data.dict, e)
              ELSE Raise("ValueError", <<212>>, InvalidFormatMsg)

\* Lines 140-218: creds_data.get on a value that is no dict is an
\* AttributeError, raised outside every try block.
Dispatch(creds_data, imp, e) ==
    IF creds_data.kind # "object"
    THEN Raise("AttributeError", <<141>>, <<"object has no attribute 'get'">>)
    ELSE IF IsServiceAccount(creds_data.dict)
         THEN ServiceAccountBranch(creds_data.dict, imp)
         ELSE IF HasTokenField(creds_data.dict)
              THEN OAuthBranch(creds_data.dict, e)
              ELSE Raise("ValueError", <<212>>, InvalidFormatMsg)

get_calendar_service(raw, imp, e) ==
    LET parsed == ParseCredentials(raw)
    IN  IF parsed.ok THEN Dispatch(parsed.value, imp, e) ELSE parsed

(***************************************************************************)
(* Inputs                                                                  *)
(***************************************************************************)
Pad(n) == [i \in 1..n |-> WS]

T(v) == Str(<<Txt(v)>>)

\* The dicts with key k absent or bound to one of Vs.
OptField(k, Vs) == {EmptyDict} \cup {k :> v : v \in Vs}

\* Records that are not service accounts: every field the OAuth branch reads
\* is absent, empty or set, independently.
OAuthDicts ==
    { ty @@ tk @@ at @@ rt @@ ci @@ cs @@ tu :
        ty \in OptField("type", {T("authorized_user")}),
        tk \in OptField("token", {None, EmptyStr, T("tokA")}),
        at \in OptField("access_token", {EmptyStr, T("tokB")}),
        rt \in OptField("refresh_token", {EmptyStr, T("r")}),
        ci \in OptField("client_id", {EmptyStr, T("c")}),
        cs \in OptField("client_secret", {EmptyStr, T("s")}),
        tu \in OptField("token_uri", {T("https://example.test/token")}) }

\* Records of type service_account, with and without the fields the
\* service-account schema requires and with and without OAuth fields.
ServiceAccountDicts ==
    { ("type" :> T("service_account")) @@ tk @@ at @@ rf @@ sa @@ tu :
        tk \in OptField("token", {T("tokA")}),
        at \in OptField("access_token", {T("tokB")}),
        rf \in {EmptyDict, ("refresh_token" :> T("r")) @@ ("client_id" :> T("c"))
                             @@ ("client_secret" :> T("s"))},
        sa \in {EmptyDict, ("client_email" :> T("sa@example.test"))
                             @@ ("private_key" :> T("pem"))},
        tu \in OptField("token_uri", {T("https://example.test/token")}) }

JsonDocs ==
    {JsonObject(d) : d \in OAuthDicts \cup ServiceAccountDicts}
    \cup {JsonOther(kd) : kd \in JsonScalarKinds}

\* Strings that are not JSON: with and without a token prefix, the prefix
\* alone, text before the prefix, whitespace inside the token.
BareCores ==
    {<<>>, <<Txt("abc")>>, <<Txt("abc"), Txt("ya29.")>>, <<Txt("not"), WS, Txt("json")>>}
    \cup {<<Txt(p)>> : p \in TokenPrefixes}
    \cup {<<Txt(p), Txt("abc")>> : p \in TokenPrefixes}
    \cup {<<Txt(p), Txt("abc"), WS, Txt("def")>> : p \in TokenPrefixes}

Cores == BareCores \cup {<<JsonText(doc)>> : doc \in JsonDocs}

Padded(S) == {Pad(l) \o c \o Pad(r) : l \in 0..MaxPad, r \in 0..MaxPad, c \in S}

RawInputs == Padded(Cores)

Impersonations == {None, EmptyStr, T("user@example.com")}

\* What the credential server would answer: whether the access token has in
\* fact outlived its lifetime, and whether a refresh exchange would succeed.
Envs == [stale : BOOLEAN, refreshOk : BOOLEAN]

NoOutcome == [ok |-> FALSE, exc |-> "none", at |-> <<>>, msg |-> <<>>]
NoCtx == [kind |-> "none"]
NoResult == [raised |-> FALSE, text |-> <<>>]

(***************************************************************************)
(* Direct calls of get_calendar_service                                    *)
(***************************************************************************)
Init ==
    /\ pc = "call"
    /\ google_calendar_credentials \in RawInputs
    /\ impersonate_user \in Impersonations
    /\ env \in Envs
    /\ outcome = NoOutcome
    /\ tool = "none"
    /\ ctx = NoCtx
    /\ result = NoResult

GetCalendarService ==
    /\ pc = "call"
    /\ pc' = "resolved"
    /\ outcome' = get_calendar_service(google_calendar_credentials,
                                       impersonate_user, env)
    /\ UNCHANGED <<google_calendar_credentials, impersonate_user, env, tool,
                   ctx, result>>

Next == GetCalendarService

Spec == Init /\ [][Next]_vars

(***************************************************************************)
(* get_credentials_from_header                                             *)
(***************************************************************************)
HeaderNames == {"x-google-calendar-credentials", "google-calendar-credentials",
                "authorization"}

\* Lines 65-69: the first of the three headers that is set and not empty.
SelectHeader(header_dict) ==
    PyOr(DictGet(header_dict, "x-google-calendar-credentials", None),
         PyOr(DictGet(header_dict, "google-calendar-credentials", None),
              DictGet(header_dict, "authorization", None)))

\* NormalizeHeader wrapping a plain token as it came, not stripped.
NormalizeHeader_TokenNotStripped(creds_header) ==
    IF StartsWith(creds_header, {"Bearer "})
    THEN JsonDumpsAccessToken(Strip(RemoveText(creds_header, "Bearer ")))
    ELSE IF JsonLoads(creds_header).ok THEN creds_header
    ELSE IF StartsWith(Strip(creds_header), TokenPrefixes)
         THEN JsonDumpsAccessToken(creds_header)
         ELSE creds_header

\* Lines 77-95: the string handed on for a header value.
NormalizeHeader(creds_header) ==
    IF StartsWith(creds_header, {"Bearer "})
    THEN JsonDumpsAccessToken(Strip(RemoveText(creds_header, "Bearer ")))
    ELSE IF JsonLoads(creds_header).ok THEN creds_header
    ELSE IF StartsWith(Strip(creds_header), TokenPrefixes)
         THEN JsonDumpsAccessToken(Strip(creds_header))
         ELSE creds_header

\* Lines 45-101.  A ValueError raised while the request is read is raised
\* again as it is, any other exception as a ValueError that quotes it.
get_credentials_from_header(c) ==
    IF c.kind = "none"
    THEN Raise("ValueError", <<46>>,
               <<"Context is required to extract credentials from headers">>)
    ELSE IF c.kind = "raises"
    THEN IF c.exc = "ValueError"
         THEN Raise("ValueError", <<50>>, <<"Context is not available outside of a request">>)
         ELSE Raise("ValueError", <<101, 50>>,
                    <<"Failed to extract credentials from headers: ", "request context failure">>)
    ELSE IF c.kind = "norequest"
    THEN Raise("ValueError", <<52>>, <<"Request context not available">>)
    ELSE IF ~Truthy(SelectHeader(c.headers))
    THEN Raise("ValueError", <<72>>,
               <<"Google Calendar credentials not found in HTTP headers. Expected header: 'X-Google-Calendar-Credentials', 'Google-Calendar-Credentials', or 'Authorization'">>)
    ELSE Return(NormalizeHeader(SelectHeader(c.headers).s))

(***************************************************************************)
(* The five tools                                                          *)
(***************************************************************************)
Tools == {"list_calendars", "get_events", "create_event", "check_availability",
          "delete_event"}

\* except Exception: the classes it catches.
ExceptionClasses == {"ValueError", "AttributeError", "KeyError", "HttpError",
                     "RefreshError", "RuntimeError"}

ErrorPrefix(name) ==
    CASE name = "list_calendars" -> "Error listing calendars: "
      [] name = "get_events" -> "Error getting events: "
      [] name = "create_event" -> "Error creating event: "
      [] name = "check_availability" -> "Error checking availability: "
      [] name = "delete_event" -> "Error deleting event: "

ErrorSuffix(name) ==
    IF name = "get_events"
    THEN <<". Please check your credentials and try again.">>
    ELSE <<>>

\* The work of a tool once it holds the service: its arguments, the request
\* to the calendar API and the formatting of the answer.  e.api is what the
\* API answers, e.args whether create_event's start_time parses.
ToolBody(name, service, e) ==
    IF name = "create_event" /\ e.args = "bad_start_time"
    THEN Raise("ValueError", <<358>>, <<"Invalid isoformat string">>)
    ELSE IF e.api = "HttpError"
    THEN Raise("HttpError", <<240>>, <<"HttpError 401: Invalid Credentials">>)
    ELSE IF e.api = "items_missing_fields"
            /\ name \in {"list_calendars", "get_events", "check_availability"}
    THEN Raise("KeyError", <<244>>, <<"'summary'">>)
    ELSE CASE name = "list_calendars" ->
                Return(IF e.api = "empty" THEN <<"No calendars found.">>
                       ELSE <<"- ", "summary", " (ID: ", "id", ")">>)
           [] name = "get_events" ->
                Return(IF e.api = "empty" THEN <<"No upcoming events found.">>
                       ELSE <<"- ", "summary", " (", "start", ") [ID: ", "id", "]">>)
           [] name = "create_event" ->
                Return(<<"Event created: ", "summary", " (ID: ", "id", ")">>)
           [] name = "check_availability" ->
                Return(IF e.api = "empty"
                       THEN <<"Available from ", "time_min", " to ", "time_max">>
                       ELSE <<"Busy periods from ", "time_min", " to ", "time_max", ":">>)
           [] name = "delete_event" ->
                Return(<<"Event ", "event_id", " deleted successfully">>)

\* The try block of a tool: header, service, body; the first exception ends it.
ToolTry(name, c, imp, e) ==
    LET hdr == get_credentials_from_header(c)
        svc == IF hdr.ok THEN get_calendar_service(hdr.value, imp, e) ELSE hdr
    IN  IF svc.ok THEN ToolBody(name, svc.value, e) ELSE svc

\* A tool handler that catches ValueError only.
ToolHandler_CatchesValueErrorOnly(name, tried) ==
    IF tried.ok THEN [raised |-> FALSE, text |-> tried.value]
    ELSE IF tried.exc = "ValueError"
         THEN [raised |-> FALSE,
               text |-> <<ErrorPrefix(name)>> \o tried.msg \o ErrorSuffix(name)]
         ELSE [raised |-> TRUE, text |-> tried.msg]

\* try ... except Exception as e: return f"Error ...: {str(e)}"
ToolHandler(name, tried) ==
    IF tried.ok THEN [raised |-> FALSE, text |-> tried.value]
    ELSE IF tried.exc \in ExceptionClasses
         THEN [raised |-> FALSE,
               text |-> <<ErrorPrefix(name)>> \o tried.msg \o ErrorSuffix(name)]
         ELSE [raised |-> TRUE, text |-> tried.msg]

\* The credential strings a client sends to a tool.
ToolDicts ==
    { EmptyDict,
      "access_token" :> T("tokB"),
      ("token" :> EmptyStr) @@ ("refresh_token" :> T("r")),
      ("access_token" :> T("tokB")) @@ ("refresh_token" :> T("r"))
          @@ ("client_id" :> T("c")) @@ ("client_secret" :> T("s")),
      ("type" :> T("service_account")) @@ ("token" :> T("tokA")),
      ("type" :> T("service_account")) @@ ("client_email" :> T("sa@example.test"))
          @@ ("private_key" :> T("pem")) @@ ("token_uri" :> T("https://example.test/token")) }

ToolRaws ==
    Padded(BareCores)
    \cup {<<JsonText(JsonObject(d))>> : d \in ToolDicts}
    \cup {<<JsonText(JsonOther(kd))>> : kd \in JsonScalarKinds}

\* The request contexts that carry the string s, and those that carry none.
CtxFor(s) ==
    { [kind |-> "none"], [kind |-> "norequest"],
      [kind |-> "raises", exc |-> "ValueError"],
      [kind |-> "raises", exc |-> "RuntimeError"],
      [kind |-> "request", headers |-> EmptyDict],
      [kind |-> "request", headers |-> "authorization" :> EmptyStr] }
    \cup { [kind |-> "request", headers |-> h :> Str(s)] : h \in HeaderNames }
    \cup { [kind |-> "request",
            headers |-> "authorization" :> Str(<<Txt("Bearer ")>> \o s)],
           [kind |-> "request",
            headers |-> ("x-google-calendar-credentials" :> EmptyStr)
                            @@ ("authorization" :> Str(s))] }

ToolEnvs ==
    [stale : {FALSE}, refreshOk : {TRUE},
     api : {"empty", "items", "items_missing_fields", "HttpError"},
     args : {"ok", "bad_start_time"}]

ToolInit ==
    /\ pc = "request"
    /\ google_calendar_credentials \in ToolRaws
    /\ ctx \in CtxFor(google_calendar_credentials)
    /\ impersonate_user \in {None, T("user@example.com")}
    /\ env \in ToolEnvs
    /\ outcome = NoOutcome
    /\ tool = "none"
    /\ result = NoResult

\* One tool call, from the request to the returned string.
ToolStep(name) ==
    /\ pc' = "returned"
    /\ tool' = name
    /\ outcome' = ToolTry(name, ctx, impersonate_user, env)
    /\ result' = ToolHandler(name, ToolTry(name, ctx, impersonate_user, env))
    /\ UNCHANGED <<google_calendar_credentials, impersonate_user, env, ctx>>

list_calendars ==
    /\ pc = "request"
    /\ ToolStep("list_calendars")

get_events ==
    /\ pc = "request"
    /\ ToolStep("get_events")

create_event ==
    /\ pc = "request"
    /\ ToolStep("create_event")

check_availability ==
    /\ pc = "request"
    /\ ToolStep("check_availability")

delete_event ==
    /\ pc = "request"
    /\ ToolStep("delete_event")

ToolNext ==
    \/ list_calendars
    \/ get_events
    \/ create_event
    \/ check_availability
    \/ delete_event

ToolSpec == ToolInit /\ [][ToolNext]_vars

(***************************************************************************)
(* One credential string, sent through a header and resolved               *)
(***************************************************************************)
\* Strings that hold the text "Bearer " themselves.
BearerCores ==
    { <<Txt("Bearer "), Txt("ya29."), Txt("abc")>>,
      <<Txt("ya29."), Txt("abc"), Txt("Bearer "), Txt("def")>> }

ChannelRaws ==
    Padded(BareCores \cup BearerCores
           \cup {<<JsonText(JsonObject(d))>> : d \in ToolDicts}
           \cup {<<JsonText(JsonOther(kd))>> : kd \in JsonScalarKinds})

\* The request contexts that carry s in exactly one header.
ChannelCtxFor(s) ==
    { [kind |-> "request", headers |-> h :> Str(s)] : h \in HeaderNames }
    \cup { [kind |-> "request",
            headers |-> "authorization" :> Str(<<Txt("Bearer ")>> \o s)] }

ChannelInit ==
    /\ pc = "request"
    /\ google_calendar_credentials \in ChannelRaws
    /\ ctx \in ChannelCtxFor(google_calendar_credentials)
    /\ impersonate_user \in Impersonations
    /\ env \in Envs
    /\ outcome = NoOutcome
    /\ tool = "none"
    /\ result = NoResult

\* Lines 238-239 (and 274-275, 353-354, 455-456, 504-505): the string taken
\* from the header is what get_calendar_service resolves.
ResolveFromHeader ==
    /\ pc = "request"
    /\ pc' = "resolved"
    /\ outcome' =
          LET hdr == get_credentials_from_header(ctx)
          IN  IF hdr.ok
              THEN get_calendar_service(hdr.value, impersonate_user, env)
              ELSE hdr
    /\ UNCHANGED <<google_calendar_credentials, impersonate_user, env, tool,
                   ctx, result>>

ChannelNext == ResolveFromHeader

ChannelSpec == ChannelInit /\ [][ChannelNext]_vars

(***************************************************************************)
(* Concurrent tool calls.  Every variable is a function of the call: the   *)
(* code keeps what a call works on in the locals of its own frame          *)
(* (google_calendar_credentials, creds_data, creds, service) and has no    *)
(* module-level cache.  A call runs in steps, between which the others     *)
(* may run: header extraction, parsing, dispatch.  outcome[c] is what      *)
(* the call holds: creds_data after parsing, then the service or the       *)
(* exception.  A finished call slot takes the next request.                *)
(***************************************************************************)
Calls == 1..MaxCalls

ConcRaws ==
    { <<Txt("ya29."), Txt("abc"), WS>>,
      <<JsonText(JsonObject(("access_token" :> T("tokB")) @@ ("refresh_token" :> T("r"))
          @@ ("client_id" :> T("c")) @@ ("client_secret" :> T("s"))))>>,
      <<JsonText(JsonObject(("type" :> T("service_account"))
          @@ ("client_email" :> T("sa@example.test")) @@ ("private_key" :> T("pem"))
          @@ ("token_uri" :> T("https://example.test/token"))))>>,
      <<JsonText(JsonOther("number"))>> }

ConcCtxs ==
    { [kind |-> "request", headers |-> "x-google-calendar-credentials" :> Str(s)] :
        s \in ConcRaws }

ConcImpersonations == {None, T("user@example.com")}

ConcEnvs == [stale : {FALSE}, refreshOk : BOOLEAN]

ConcInit ==
    /\ pc = [c \in Calls |-> "request"]
    /\ ctx \in [Calls -> ConcCtxs]
    /\ impersonate_user \in [Calls -> ConcImpersonations]
    /\ env \in [Calls -> ConcEnvs]
    /\ google_calendar_credentials = [c \in Calls |-> <<>>]
    /\ outcome = [c \in Calls |-> NoOutcome]
    /\ tool = [c \in Calls |-> "none"]
    /\ result = [c \in Calls |-> NoResult]

\* A dispatch that hands out the service another call has built, as a
\* module-level cache of the last client would.
ServiceFor_SharedClient(c) ==
    IF \E o \in Calls : o # c /\ pc[o] = "resolved" /\ outcome[o].ok
    THEN outcome[CHOOSE o \in Calls : o # c /\ pc[o] = "resolved" /\ outcome[o].ok]
    ELSE Dispatch(outcome[c].value, impersonate_user[c], env[c])

\* Lines 138-218 in the frame of call c: the service is built from the
\* call's own creds_data, impersonate_user and refresh answer.
ServiceFor(c) == Dispatch(outcome[c].value, impersonate_user[c], env[c])

\* Line 238: google_calendar_credentials = get_credentials_from_header(ctx)
ExtractStep(c) ==
    /\ pc[c] = "request"
    /\ LET hdr == get_credentials_from_header(ctx[c])
       IN  IF hdr.ok
           THEN /\ google_calendar_credentials' =
                       [google_calendar_credentials EXCEPT ![c] = hdr.value]
                /\ pc' = [pc EXCEPT ![c] = "extracted"]
                /\ UNCHANGED outcome
           ELSE /\ outcome' = [outcome EXCEPT ![c] = hdr]
                /\ pc' = [pc EXCEPT ![c] = "resolved"]
                /\ UNCHANGED google_calendar_credentials
    /\ UNCHANGED <<impersonate_user, env, tool, ctx, result>>

\* Lines 119-136: creds_data, or the ValueError that ends the call.
ParseStep(c) ==
    /\ pc[c] = "extracted"
    /\ outcome' = [outcome EXCEPT
                     ![c] = ParseCredentials(google_calendar_credentials[c])]
    /\ pc' = [pc EXCEPT
                ![c] = IF ParseCredentials(google_calendar_credentials[c]).ok
                       THEN "parsed" ELSE "resolved"]
    /\ UNCHANGED <<google_calendar_credentials, impersonate_user, env, tool,
                   ctx, result>>

\* Lines 138-218: the service, or the exception that ends the call.
DispatchStep(c) ==
    /\ pc[c] = "parsed"
    /\ outcome' = [outcome EXCEPT ![c] = ServiceFor(c)]
    /\ pc' = [pc EXCEPT ![c] = "resolved"]
    /\ UNCHANGED <<google_calendar_credentials, impersonate_user, env, tool,
                   ctx, result>>

\* The call has returned, its frame is gone; the slot takes a new request.
NextRequest(c) ==
    /\ pc[c] = "resolved"
    /\ \E nc \in ConcCtxs, ni \in ConcImpersonations, ne \in ConcEnvs :
          /\ ctx' = [ctx EXCEPT ![c] = nc]
          /\ impersonate_user' = [impersonate_user EXCEPT ![c] = ni]
          /\ env' = [env EXCEPT ![c] = ne]
    /\ pc' = [pc EXCEPT ![c] = "request"]
    /\ google_calendar_credentials' = [google_calendar_credentials EXCEPT ![c] = <<>>]
    /\ outcome' = [outcome EXCEPT ![c] = NoOutcome]
    /\ UNCHANGED <<tool, result>>

ConcNext ==
    \E c \in Calls :
        \/ ExtractStep(c)
        \/ ParseStep(c)
        \/ DispatchStep(c)
        \/ NextRequest(c)

ConcSpec == ConcInit /\ [][ConcNext]_vars

(***************************************************************************)
(* Vocabulary of the claims                                                *)
(***************************************************************************)
Resolved == pc = "resolved"

Raw == google_calendar_credentials

\* The input decodes as JSON, and as a JSON object.
DecodesAsJson == JsonLoads(Raw).ok
DecodesAsObject == DecodesAsJson /\ JsonLoads(Raw).value.kind = "object"

\* The decoded credential record: the JSON object, or the record built
\* around an accepted bare token.
HasRecord == ParseCredentials(Raw).ok /\ ParseCredentials(Raw).value.kind = "object"
Record == ParseCredentials(Raw).value.dict

RecordIsServiceAccount ==
    HasRecord /\ "type" \in DOMAIN Record /\ Record["type"] = T("service_account")

RecordHasTokenField ==
    HasRecord /\ ("token" \in DOMAIN Record \/ "access_token" \in DOMAIN Record)

OAuthBranchReached == RecordHasTokenField /\ ~RecordIsServiceAccount

NonEmptyString(d, key) == key \in DOMAIN d /\ d[key].t = "str" /\ d[key].s # <<>>

\* The strategy of a resolved client, read off the credential it binds.
Strategy(o) ==
    IF ~o.ok THEN "none"
    ELSE IF o.value.credentials.cls = "service_account" THEN "ServiceAccount"
    ELSE IF /\ o.value.credentials.refresh_token = None
            /\ o.value.credentials.token_uri = None
            /\ o.value.credentials.client_id = None
            /\ o.value.credentials.client_secret = None
         THEN "StaticToken"
         ELSE "RefreshableOAuth"

\* The error kind of a failed resolution, by where it was raised.
ErrorKind(o) ==
    IF o.ok \/ o.at = <<>> THEN "none"
    ELSE IF o.exc # "ValueError" THEN "Unclassified"
    ELSE IF o.at[1] = 130 THEN "MalformedInput"
    ELSE IF o.at[1] = 212 THEN "UnrecognizedShape"
    ELSE IF o.at[1] = 153 THEN "ServiceAccountInvalid"
    ELSE IF o.at[1] = 209 /\ o.at[2] = 166 THEN "MissingToken"
    ELSE IF o.at[1] = 209 /\ o.at[2] = 195 THEN "RefreshFailed"
    ELSE "Unclassified"

(***************************************************************************)
(* Claims                                                                  *)
(***************************************************************************)
\* C1: a record of type service_account resolves to a ServiceAccount client
\* or fails with ServiceAccountInvalid; it never takes the OAuth branch,
\* whatever token fields it carries.
C1_ServiceAccountPrecedence ==
    (Resolved /\ RecordIsServiceAccount) =>
        \/ outcome.ok /\ Strategy(outcome) = "ServiceAccount"
        \/ ~outcome.ok /\ ErrorKind(outcome) = "ServiceAccountInvalid"

\* A service-account record that also carries a token and whose
\* construction failed.
C1_Witness ==
    /\ Resolved /\ RecordIsServiceAccount
    /\ "token" \in DOMAIN Record
    /\ ~outcome.ok

\* C2: in the OAuth branch RefreshableOAuth is selected only when
\* refresh_token, client_id and client_secret are all present; when one is
\* absent a successful resolution is StaticToken with no refresh field bound.
C2_RefreshableNeedsAllThree ==
    (Resolved /\ OAuthBranchReached) =>
        LET allThree == {"refresh_token", "client_id", "client_secret"}
                            \subseteq DOMAIN Record
        IN  /\ Strategy(outcome) = "RefreshableOAuth" => allThree
            /\ (outcome.ok /\ ~allThree) =>
                   /\ Strategy(outcome) = "StaticToken"
                   /\ outcome.value.credentials.refresh_token = None
                   /\ outcome.value.credentials.client_id = None
                   /\ outcome.value.credentials.client_secret = None

\* Two of the three refresh fields are set, the third is absent, and the
\* resolution succeeded.
C2_Witness ==
    /\ Resolved /\ OAuthBranchReached /\ outcome.ok
    /\ NonEmptyString(Record, "refresh_token")
    /\ NonEmptyString(Record, "client_id")
    /\ "client_secret" \notin DOMAIN Record

\* C3 as stated: every JSON object that contains access_token,
\* refresh_token, client_id and client_secret selects RefreshableOAuth, with
\* the default token_uri when token_uri is absent.
C3_Original ==
    (/\ Resolved /\ DecodesAsObject
     /\ {"access_token", "refresh_token", "client_id", "client_secret"}
            \subseteq DOMAIN Record) =>
        /\ Strategy(outcome) = "RefreshableOAuth"
        /\ "token_uri" \notin DOMAIN Record =>
               outcome.value.credentials.token_uri = DefaultTokenUri

\* C3 as amended: a JSON object that is not of type service_account and
\* whose access_token, refresh_token, client_id and client_secret are
\* non-empty strings selects RefreshableOAuth (a failure can only be a
\* failed refresh); with token_uri absent the bound token_uri is the default.
C3_RefreshableWhenAllNonEmpty ==
    (/\ Resolved /\ DecodesAsObject /\ ~RecordIsServiceAccount
     /\ \A key \in {"access_token", "refresh_token", "client_id", "client_secret"} :
            NonEmptyString(Record, key)) =>
        /\ outcome.ok => Strategy(outcome) = "RefreshableOAuth"
        /\ ~outcome.ok => ErrorKind(outcome) = "RefreshFailed"
        /\ (outcome.ok /\ "token_uri" \notin DOMAIN Record) =>
               outcome.value.credentials.token_uri = DefaultTokenUri
        /\ (outcome.ok /\ "token_uri" \in DOMAIN Record) =>
               outcome.value.credentials.token_uri = Record["token_uri"]

\* All four fields set, no token_uri, and a RefreshableOAuth client.
C3_Witness ==
    /\ Resolved /\ DecodesAsObject /\ ~RecordIsServiceAccount
    /\ \A key \in {"access_token", "refresh_token", "client_id", "client_secret"} :
           NonEmptyString(Record, key)
    /\ "token_uri" \notin DOMAIN Record
    /\ Strategy(outcome) = "RefreshableOAuth"

\* C4: valid JSON of any kind with neither type = service_account nor a
\* token / access_token field fails with UnrecognizedShape.
C4_UnrecognizedShape ==
    (Resolved /\ DecodesAsJson /\ ~RecordIsServiceAccount /\ ~RecordHasTokenField) =>
        ~outcome.ok /\ ErrorKind(outcome) = "UnrecognizedShape"

\* C5: a RefreshableOAuth credential whose access token is already expired
\* and whose refresh exchange fails resolves to RefreshFailed, never to a
\* client that carries the un-refreshed token.
C5_StaleTokenRefreshFailure ==
    (/\ Resolved /\ OAuthBranchReached
     /\ NonEmptyString(Record, "access_token")
     /\ \A key \in {"refresh_token", "client_id", "client_secret"} :
            NonEmptyString(Record, key)
     /\ env.stale /\ ~env.refreshOk) =>
        ~outcome.ok /\ ErrorKind(outcome) = "RefreshFailed"

\* C6 as stated: a non-JSON string that starts with ya29., 1// or ya.a0
\* resolves to StaticToken and the bound token is exactly the input string.
C6_Original ==
    (Resolved /\ ~DecodesAsJson /\ StartsWith(Raw, TokenPrefixes)) =>
        /\ outcome.ok /\ Strategy(outcome) = "StaticToken"
        /\ outcome.value.credentials.token = Str(Raw)

\* C6 as amended: such a string resolves to StaticToken and the bound token
\* is the input with its trailing whitespace removed (the input itself
\* when it has none).
C6_BareTokenStripped ==
    (Resolved /\ ~DecodesAsJson /\ StartsWith(Raw, TokenPrefixes)) =>
        /\ outcome.ok /\ Strategy(outcome) = "StaticToken"
        /\ outcome.value.credentials.token = Str(RStrip(Raw))
        /\ Raw = RStrip(Raw) => outcome.value.credentials.token = Str(Raw)

\* A prefixed bare token followed by whitespace was resolved.
C6_Witness ==
    /\ Resolved /\ ~DecodesAsJson /\ StartsWith(Raw, TokenPrefixes)
    /\ Raw # RStrip(Raw)
    /\ outcome.ok

\* C7 as stated: a string that is not JSON and does not begin with ya29.,
\* 1// or ya.a0 fails with MalformedInput and its four-shapes message.
C7_Original ==
    (Resolved /\ ~DecodesAsJson /\ ~StartsWith(Raw, TokenPrefixes)) =>
        /\ ~outcome.ok /\ ErrorKind(outcome) = "MalformedInput"
        /\ outcome.msg = InvalidFormatMsg

\* C7 as amended: a string that is not JSON and does not begin with one of
\* the prefixes once its leading whitespace is removed fails with
\* MalformedInput and its four-shapes message.
C7_MalformedInput ==
    (Resolved /\ ~DecodesAsJson /\ ~StartsWith(LStrip(Raw), TokenPrefixes)) =>
        /\ ~outcome.ok /\ ErrorKind(outcome) = "MalformedInput"
        /\ outcome.msg = InvalidFormatMsg

\* A non-JSON string with text before the prefix was rejected.
C7_Witness ==
    /\ Resolved /\ ~DecodesAsJson
    /\ LStrip(Raw) # <<>> /\ ~StartsWith(LStrip(Raw), TokenPrefixes)
    /\ ErrorKind(outcome) = "MalformedInput"

\* C8 as stated: in the OAuth branch the token used is the value of token
\* when that key is present, otherwise the value of access_token; with no
\* usable token the resolution fails with MissingToken.
C8_Original ==
    (Resolved /\ OAuthBranchReached) =>
        LET chosen == IF "token" \in DOMAIN Record THEN Record["token"]
                      ELSE Record["access_token"]
        IN  IF Truthy(chosen)
            THEN outcome.ok /\ outcome.value.credentials.token = chosen
            ELSE ~outcome.ok /\ ErrorKind(outcome) = "MissingToken"

\* C8 as amended: the token used is the value of token when that key is
\* present with a non-empty value, otherwise the value of access_token; when
\* neither holds a non-empty value the resolution fails with MissingToken.
C8_TokenPreference ==
    (Resolved /\ OAuthBranchReached) =>
        LET chosen == IF NonEmptyString(Record, "token") THEN Record["token"]
                      ELSE IF "access_token" \in DOMAIN Record
                           THEN Record["access_token"] ELSE None
        IN  IF Truthy(chosen)
            THEN /\ ErrorKind(outcome) # "MissingToken"
                 /\ (outcome.ok /\ ~outcome.value.credentials.refreshed) =>
                        outcome.value.credentials.token = chosen
            ELSE ~outcome.ok /\ ErrorKind(outcome) = "MissingToken"

\* token and access_token both set to different values: token was used.
C8_Witness ==
    /\ Resolved /\ OAuthBranchReached
    /\ NonEmptyString(Record, "token") /\ NonEmptyString(Record, "access_token")
    /\ Record["token"] # Record["access_token"]
    /\ outcome.ok /\ outcome.value.credentials.token = Record["token"]

\* C9: when the resolution did not go through the service-account branch,
\* its outcome is the same for every impersonate_user, none included.
C9_ImpersonationIgnored ==
    (/\ Resolved
     /\ Strategy(outcome) # "ServiceAccount"
     /\ ErrorKind(outcome) # "ServiceAccountInvalid") =>
        \A other \in Impersonations :
            get_calendar_service(Raw, other, env) = outcome

\* A StaticToken client resolved under an impersonation target.
C9_Witness ==
    /\ Resolved /\ Truthy(impersonate_user)
    /\ Strategy(outcome) = "StaticToken"

\* part occurs in text as a run of consecutive fragments.
Contains(text, part) ==
    \E i \in 1..(Len(text) + 1) :
        /\ i + Len(part) - 1 <= Len(text)
        /\ SubSeq(text, i, i + Len(part) - 1) = part

\* The first failure of a tool call, stage by stage: header extraction,
\* credential resolution, then the tool's own work and its API request.
HeaderStage == get_credentials_from_header(ctx)
ServiceStage == get_calendar_service(HeaderStage.value, impersonate_user, env)
BodyStage == ToolBody(tool, ServiceStage.value, env)
FirstFailure ==
    IF ~HeaderStage.ok THEN HeaderStage
    ELSE IF ~ServiceStage.ok THEN ServiceStage
    ELSE BodyStage

\* C10: every tool call returns a string and never raises; after a failure
\* of header extraction, of credential resolution (classified or not) or of
\* the API request the string is the tool's error message and contains the
\* text of the cause, never a success message.
C10_ToolsReportEveryFailure ==
    pc = "returned" =>
        /\ ~result.raised
        /\ result.text # <<>>
        /\ ~FirstFailure.ok =>
               /\ result.text[1] = ErrorPrefix(tool)
               /\ FirstFailure.msg # <<>>
               /\ Contains(result.text, FirstFailure.msg)
        /\ FirstFailure.ok => result.text[1] # ErrorPrefix(tool)

\* A tool was called with a JSON credential that is no object: the
\* resolver's unclassified AttributeError came back as an error string.
C10_Witness ==
    /\ pc = "returned"
    /\ HeaderStage.ok /\ ~ServiceStage.ok
    /\ ServiceStage.exc = "AttributeError"
    /\ ~result.raised
    /\ Contains(result.text, ServiceStage.msg)

\* The string Raw was sent as the whole value of header h, or as
\* Authorization: Bearer Raw.
SentIn(h) ==
    /\ ctx.kind = "request"
    /\ DOMAIN ctx.headers = {h}
    /\ ctx.headers[h] = Str(Raw)

SentAsBearer ==
    /\ ctx.kind = "request"
    /\ DOMAIN ctx.headers = {"authorization"}
    /\ ctx.headers["authorization"] = Str(<<Txt("Bearer ")>> \o Raw)

\* Same strategy and same bound credential, or the same error kind.
SameOutcome(a, b) ==
    /\ a.ok = b.ok
    /\ a.ok => a.value = b.value
    /\ ~a.ok => ErrorKind(a) = ErrorKind(b) /\ a.exc = b.exc

DirectOutcome == get_calendar_service(Raw, impersonate_user, env)

HoldsBearerText(s) == \E i \in 1..Len(s) : s[i] = Txt("Bearer ")

OwnResolution(c) ==
    LET hdr == get_credentials_from_header(ctx[c])
    IN  IF hdr.ok
        THEN get_calendar_service(hdr.value, impersonate_user[c], env[c])
        ELSE hdr

\* C12: under every interleaving of concurrent calls and after every
\* sequence of earlier calls, what a call resolved to is what its own
\* credential, impersonate_user and refresh answer determine; nothing of
\* another call is observed or reused.
C12_ResolutionsIndependent ==
    \A c \in Calls : pc[c] = "resolved" => outcome[c] = OwnResolution(c)

\* Two calls are resolved at the same time, to different clients, and a
\* call other than the first was resolved while the first held its client.
C12_Witness ==
    \E c \in Calls, o \in Calls :
        /\ c # o
        /\ pc[c] = "resolved" /\ pc[o] = "resolved"
        /\ outcome[c].ok /\ outcome[o].ok
        /\ outcome[c] # outcome[o]

====
